---- MODULE Spec2Model ----
(***************************************************************************)
(* Context compaction extension (konsumer/context_compaction).             *)
(*                                                                         *)
(* Threshold path  (src/__init__.py): on_response observes token usage and *)
(* arms needs_compaction per conversation id; on_request, when the flag is *)
(* set, awaits a summarization and rewrites the message list.              *)
(* Command path (src/simple_plugin_example.py): compact_command_filter     *)
(* intercepts a trailing user message that starts with /compact.           *)
(*                                                                         *)
(* Python strings are modelled as sequences of pieces (a piece is a TLA+   *)
(* string): concatenation is \o, '' is <<>>.  The command path, which      *)
(* trims and prefix-tests text, uses one piece per character.              *)
(***************************************************************************)
EXTENDS Integers, Sequences, FiniteSets, TLC

VARIABLES
    compaction_config,  \* src/__init__.py:38  the live CompactionConfig
    chat_contexts,      \* src/__init__.py:39  conversation id -> state dict
    tasks,              \* the requests in the filter pipeline, one per slot
    rw,                 \* apply_compaction applied on its own (SpecRewrite)
    cmd,                \* compact_command_filter on one chat (SpecCommand)
    lim                 \* get_model_context_limit on its own (SpecResolver)

vars == <<compaction_config, chat_contexts, tasks, rw, cmd, lim>>

----------------------------------------------------------------------------
(* Bounds of the model. *)

\* number of on_request coroutines that can be in flight at once
MaxTasks == 2
\* compactions, done or under way, over all conversations
MaxCompactions == 2
\* longest message list handed to apply_compaction on its own
MaxLen == 5
\* most messages that precede the last one in a chat given to the filter
MaxEarlier == 2

----------------------------------------------------------------------------
(* Python values. *)

None == <<"<None>">>          \* Python None
Absent == <<"<absent>">>      \* a key that is not in a dict
EmptyStr == <<>>              \* ''

\* bool(v) of a str-or-None value
Truthy(v) == v # None /\ v # EmptyStr

\* Python's  a or b
PyOr(a, b) == IF Truthy(a) THEN a ELSE b

\* dict.get(key, default) on a field that holds Absent when the key is missing
Get(v, default) == IF v = Absent THEN default ELSE v

\* s[:-1]
AllButLast(s) == IF Len(s) = 0 THEN <<>> ELSE SubSeq(s, 1, Len(s) - 1)

\* s[-2:]
LastTwo(s) == IF Len(s) <= 2 THEN s ELSE SubSeq(s, Len(s) - 1, Len(s))

Min(a, b) == IF a <= b THEN a ELSE b

\* str.upper() on the role names that occur
Upper(role) ==
    CASE role = "system" -> "SYSTEM"
      [] role = "user" -> "USER"
      [] role = "assistant" -> "ASSISTANT"
      [] role = "unknown" -> "UNKNOWN"
      [] OTHER -> role

Msg(role, text) == [role |-> role, content |-> <<text>>]

----------------------------------------------------------------------------
(* CompactionConfig, src/__init__.py:17-34.  threshold is a float; the     *)
(* model keeps it in hundredths (0.8 is 80, see AtOrAbove).                *)

SummaryPrompt == <<"Please provide a comprehensive summary of the conversation so far. Preserve: ... This summary will replace the conversation history.">>
SimplePrompt == <<"Summarize this conversation concisely. Include: key decisions, requirements, code context, and current task. Be brief.">>

DefaultThreshold == 80

CompactionConfig ==
    [enabled |-> TRUE,
     threshold |-> DefaultThreshold,
     provider |-> None,
     model |-> None,
     notify_user |-> TRUE,
     use_simple_prompt |-> FALSE,
     summary_prompt |-> SummaryPrompt,
     simple_prompt |-> SimplePrompt]

----------------------------------------------------------------------------
(* Model and provider names: strings cut into pieces at the places where   *)
(* the substrings of the heuristic table begin and end, so that Python's   *)
(*  'x' in s  is Contains(s, x).                                           *)

\* the pieces of s starting at position i agree with pat
MatchesAt(s, pat, i) ==
    /\ i + Len(pat) - 1 <= Len(s)
    /\ \A k \in 1..Len(pat) : s[i + k - 1] = pat[k]

\* pat in s
Contains(s, pat) == \E i \in 1..(Len(s) + 1) : MatchesAt(s, pat, i)

LowerPiece(p) ==
    CASE p = "GPT-4" -> "gpt-4"
      [] p = "Turbo" -> "turbo"
      [] p = "Claude" -> "claude"
      [] OTHER -> p

\* str.lower()
Lower(s) == [i \in 1..Len(s) |-> LowerPiece(s[i])]

\* estimate_context_limit_fallback with the generic gpt-4 and
\* gpt-3.5-turbo rows tested before the more specific ones
estimate_context_limit_generic_first(model) ==
    LET model_lower == Lower(model)
        has(pat) == Contains(model_lower, pat)
    IN  IF has(<<"gpt-4">>) THEN 8192
        ELSE IF has(<<"gpt-3.5", "-", "turbo">>) THEN 4096
        ELSE IF has(<<"gpt-3.5", "-", "turbo", "-", "16k">>) THEN 16384
        ELSE IF \/ has(<<"claude", "-", "3", "-", "opus">>)
                \/ has(<<"claude", "-", "3", "-", "sonnet">>)
                \/ has(<<"claude", "-", "3", "-", "haiku">>) THEN 200000
        ELSE IF has(<<"claude">>) THEN 100000
        ELSE IF has(<<"llama">>) \/ has(<<"mistral">>) \/ has(<<"mixtral">>) THEN
            IF has(<<"32k">>) THEN 32768
            ELSE IF has(<<"16k">>) THEN 16384
            ELSE 8192
        ELSE 8192

\* src/__init__.py:224-258
estimate_context_limit_fallback(model) ==
    LET model_lower == Lower(model)
        has(pat) == Contains(model_lower, pat)
    IN  IF has(<<"gpt-4", "-", "turbo">>) \/ has(<<"gpt-4", "-", "1106">>) THEN 128000
        ELSE IF has(<<"gpt-4", "-", "32k">>) THEN 32768
        ELSE IF has(<<"gpt-4">>) THEN 8192
        ELSE IF has(<<"gpt-3.5", "-", "turbo", "-", "16k">>) THEN 16384
        ELSE IF has(<<"gpt-3.5", "-", "turbo">>) THEN 4096
        ELSE IF \/ has(<<"claude", "-", "3", "-", "opus">>)
                \/ has(<<"claude", "-", "3", "-", "sonnet">>)
                \/ has(<<"claude", "-", "3", "-", "haiku">>) THEN 200000
        ELSE IF has(<<"claude", "-", "2">>) THEN 100000
        ELSE IF has(<<"claude">>) THEN 100000
        ELSE IF has(<<"llama">>) \/ has(<<"mistral">>) \/ has(<<"mixtral">>) THEN
            IF has(<<"32k">>) THEN 32768
            ELSE IF has(<<"16k">>) THEN 16384
            ELSE 8192
        ELSE 8192

(* The extension context ctx is the caller's: a record                     *)
(*   [has_get_provider, has_get_providers, order, providers]               *)
(* where providers maps the names in order (the dict's iteration order) to *)
(*   [has_model_info, raises, table]                                       *)
(* and table is a sequence of [id, has_context, context].                  *)

\* Provider.model_info(model) as the test double answers it,
\* src/test_extension.py:17-22; a provider may also raise
model_info(provider, model) ==
    IF provider.raises THEN [kind |-> "raise"]
    ELSE LET hits == {i \in 1..Len(provider.table) :
                        Lower(provider.table[i].id) = Lower(model)}
         IN  IF hits = {} THEN [kind |-> "none"]
             ELSE LET i == CHOOSE j \in hits : \A k \in hits : j <= k
                  IN  [kind |-> "info",
                       has_context |-> provider.table[i].has_context,
                       context |-> provider.table[i].context]

\* model_info.get('limit', {}).get('context') and its truth test,
\* src/__init__.py:197-202 and 210-215
LimitOf(info) ==
    IF info.kind = "info" /\ info.has_context /\ info.context # 0
    THEN [kind |-> "value", value |-> info.context]
    ELSE [kind |-> info.kind]

\* the loop of src/__init__.py:207-215 from position i of the registry
RECURSIVE ScanProviders(_, _, _)
ScanProviders(ctx, model, i) ==
    IF i > Len(ctx.order) THEN [kind |-> "none"]
    ELSE LET provider == ctx.providers[ctx.order[i]]
         IN  IF ~provider.has_model_info THEN ScanProviders(ctx, model, i + 1)
             ELSE LET r == LimitOf(model_info(provider, model))
                  IN  IF r.kind \in {"value", "raise"} THEN r
                      ELSE ScanProviders(ctx, model, i + 1)

\* src/__init__.py:192-202: the named provider
NamedProvider(ctx, provider_name, model) ==
    IF ~ctx.has_get_provider THEN [kind |-> "none"]
    ELSE IF ~Truthy(provider_name) THEN [kind |-> "none"]
    ELSE IF provider_name \notin DOMAIN ctx.providers THEN [kind |-> "none"]
    ELSE LET provider == ctx.providers[provider_name]
         IN  IF ~provider.has_model_info THEN [kind |-> "none"]
             ELSE LimitOf(model_info(provider, model))

\* src/__init__.py:188-221.  An exception anywhere in the try block ends
\* in the except clause, after which only the fallback table is left.
get_model_context_limit(ctx, provider_name, model) ==
    LET named == NamedProvider(ctx, provider_name, model)
    IN  IF named.kind = "value" THEN named.value
        ELSE IF named.kind = "raise" THEN estimate_context_limit_fallback(model)
        ELSE LET scan == IF ctx.has_get_providers
                         THEN ScanProviders(ctx, model, 1)
                         ELSE [kind |-> "none"]
             IN  IF scan.kind = "value" THEN scan.value
                 ELSE estimate_context_limit_fallback(model)

\* the MockContext of src/test_extension.py:25-51
Entry(id, n) == [id |-> id, has_context |-> TRUE, context |-> n]

MockContext ==
    [has_get_provider |-> TRUE,
     has_get_providers |-> TRUE,
     order |-> << <<"openai">>, <<"anthropic">> >>,
     providers |->
        (<<"openai">> :>
            [has_model_info |-> TRUE, raises |-> FALSE,
             table |-> << Entry(<<"gpt-4", "-", "turbo">>, 128000),
                          Entry(<<"gpt-3.5", "-", "turbo">>, 4096) >>])
        @@
        (<<"anthropic">> :>
            [has_model_info |-> TRUE, raises |-> FALSE,
             table |-> << Entry(<<"claude", "-", "3", "-", "opus", "-", "20240229">>, 200000),
                          Entry(<<"claude", "-", "3", "-", "sonnet", "-", "20240229">>, 200000) >>])]

\* a context that offers neither get_provider nor get_providers
BareContext ==
    [has_get_provider |-> FALSE,
     has_get_providers |-> FALSE,
     order |-> <<>>,
     providers |-> <<>>]

Contexts == {MockContext, BareContext}

----------------------------------------------------------------------------
(* Requests, responses and the conversation state.                         *)

\* src/__init__.py:178-185.  hash(str(messages[0])) is modelled as a tag
\* around the first message: equal first messages give equal ids, and
\* different ones different ids (no collisions in one process)
get_conversation_id(request_data) ==
    LET messages == Get(request_data.messages, <<>>)
    IN  IF Len(messages) > 0
        THEN [kind |-> "hash", of |-> messages[1]]
        ELSE [kind |-> "default"]

\* usage_ratio = prompt_tokens / context_limit, src/__init__.py:151,
\* kept as the fraction it is
Ratio(prompt_tokens, context_limit) ==
    [num |-> prompt_tokens, den |-> context_limit]

\* AtOrAbove with > in place of >=
StrictlyAbove(usage_ratio, threshold) ==
    IF usage_ratio.den > 0
    THEN usage_ratio.num * 100 > threshold * usage_ratio.den
    ELSE usage_ratio.num * 100 < threshold * usage_ratio.den

\* usage_ratio >= compaction_config.threshold, src/__init__.py:167,
\* with the threshold in hundredths
AtOrAbove(usage_ratio, threshold) ==
    IF usage_ratio.den > 0
    THEN usage_ratio.num * 100 >= threshold * usage_ratio.den
    ELSE usage_ratio.num * 100 <= threshold * usage_ratio.den

\* response_data.get('usage', {}).get('prompt_tokens', 0), src/__init__.py:137-138
PromptTokensOf(response_data) ==
    IF response_data.has_usage THEN response_data.prompt_tokens ELSE 0

\* Observe that assigns the outcome of the comparison to the flag, so that
\* an observation below the threshold clears it
ObserveAssigning(contexts, threshold, conversation_id, usage_ratio, message_count) ==
    (conversation_id :>
        [usage_ratio |-> usage_ratio,
         needs_compaction |-> AtOrAbove(usage_ratio, threshold),
         message_count |-> message_count,
         compaction_count |-> IF conversation_id \in DOMAIN contexts
                              THEN contexts[conversation_id].compaction_count
                              ELSE 0]) @@ contexts

\* Observe that, at or above the threshold, arms every conversation it
\* tracks
ObserveArmingAll(contexts, threshold, conversation_id, usage_ratio, message_count) ==
    LET tracked ==
            (conversation_id :>
                [usage_ratio |-> usage_ratio,
                 needs_compaction |-> /\ conversation_id \in DOMAIN contexts
                                     /\ contexts[conversation_id].needs_compaction,
                 message_count |-> message_count,
                 compaction_count |-> IF conversation_id \in DOMAIN contexts
                                      THEN contexts[conversation_id].compaction_count
                                      ELSE 0]) @@ contexts
    IN  IF AtOrAbove(usage_ratio, threshold)
        THEN [id \in DOMAIN tracked |->
                [tracked[id] EXCEPT !.needs_compaction = TRUE]]
        ELSE tracked

\* src/__init__.py:153-169: the state mapping after one observation
Observe(contexts, threshold, conversation_id, usage_ratio, message_count) ==
    LET tracked ==
            IF conversation_id \notin DOMAIN contexts
            THEN (conversation_id :>
                    [usage_ratio |-> usage_ratio,
                     needs_compaction |-> FALSE,
                     message_count |-> message_count,
                     compaction_count |-> 0]) @@ contexts
            ELSE [contexts EXCEPT
                    ![conversation_id].usage_ratio = usage_ratio,
                    ![conversation_id].message_count = message_count]
    IN  IF AtOrAbove(usage_ratio, threshold)
        THEN [tracked EXCEPT ![conversation_id].needs_compaction = TRUE]
        ELSE tracked

\* Compacted that counts the compaction but leaves the flag set
CompactedStillArmed(contexts, conversation_id) ==
    [contexts EXCEPT ![conversation_id].compaction_count = @ + 1]

\* src/__init__.py:120-122: the state mapping after a compaction was applied
Compacted(contexts, conversation_id) ==
    [contexts EXCEPT
        ![conversation_id].needs_compaction = FALSE,
        ![conversation_id].compaction_count = @ + 1]

(* A message's role is a string; "<absent>" stands for a message without   *)
(* a role key and "<None>" for a role that is not a str (JSON null).       *)

\* msg.get('role', 'unknown'), src/__init__.py:303
RoleOf(msg) == IF msg.role = "<absent>" THEN "unknown" ELSE msg.role

\* role.upper() on a role that is not a str raises AttributeError,
\* src/__init__.py:305
FormatRaises(messages) ==
    \E i \in 1..Len(messages) : RoleOf(messages[i]) = "<None>"

\* src/__init__.py:299-306
RECURSIVE FormatFrom(_, _)
FormatFrom(messages, i) ==
    IF i > Len(messages) THEN <<>>
    ELSE (IF i > 1 THEN <<"\n\n">> ELSE <<>>)
         \o <<"[", ToString(i), "] ", Upper(RoleOf(messages[i])), ": ">>
         \o messages[i].content
         \o FormatFrom(messages, i + 1)

format_messages_for_summary(messages) == FormatFrom(messages, 1)

\* src/__init__.py:263-281: the request compact_conversation hands to
\* ctx.chat_completion; a field that is None is left out of the dict
SummaryRequest(config, messages, provider, model) ==
    LET prompt == IF config.use_simple_prompt
                  THEN config.simple_prompt
                  ELSE config.summary_prompt
    IN  [messages |->
            << [role |-> "user", content |-> prompt],
               [role |-> "user",
                content |-> <<"Conversation to summarize:\n\n">>
                            \o format_messages_for_summary(messages)] >>,
         model |-> LET v == PyOr(model, config.model)
                   IN IF v = None THEN Absent ELSE v,
         provider |-> LET v == PyOr(provider, config.provider)
                      IN IF v = None THEN Absent ELSE v,
         temperature |-> "0.3"]

(* What awaiting ctx.chat_completion can end in.                           *)
(*   text       a response whose first choice carries this content         *)
(*   no_choices a response with an empty choices list (IndexError)         *)
(*   error      the call raises an Exception                               *)
(*   timeout    asyncio.TimeoutError, an Exception                         *)
(*   cancelled  asyncio.CancelledError, a BaseException that is not an     *)
(*              Exception                                                  *)
SummaryText == <<"Summary of the conversation with key context preserved.">>

ChatOutcomes ==
    {[kind |-> "text", text |-> SummaryText],
     [kind |-> "text", text |-> EmptyStr],
     [kind |-> "no_choices", text |-> EmptyStr],
     [kind |-> "error", text |-> EmptyStr],
     [kind |-> "timeout", text |-> EmptyStr],
     [kind |-> "cancelled", text |-> EmptyStr]}

\* src/__init__.py:284-296: what compact_conversation does with the
\* outcome of the await.  except Exception catches everything but the
\* cancellation, which leaves compact_conversation as an exception
SummaryResult(outcome) ==
    CASE outcome.kind = "text" /\ Truthy(outcome.text) ->
            [raised |-> FALSE, summary |-> outcome.text]
      [] outcome.kind = "cancelled" ->
            [raised |-> TRUE, summary |-> None]
      [] OTHER ->
            [raised |-> FALSE, summary |-> None]

\* src/__init__.py:309-330
SystemMessages(messages) ==
    SelectSeq(messages, LAMBDA msg : msg.role = "system")

\* apply_compaction that takes its tail from the messages that are not
\* already kept as system messages
apply_compaction_deduplicated(messages, summary) ==
    LET rest == SelectSeq(messages, LAMBDA msg : msg.role # "system")
    IN  SystemMessages(messages)
        \o << [role |-> "assistant",
               content |-> <<"[Context Summary]\n\n">> \o summary] >>
        \o LastTwo(rest)

\* apply_compaction that drops from the tail the messages it already
\* keeps as system messages
apply_compaction_unique_tail(messages, summary) ==
    SystemMessages(messages)
    \o << [role |-> "assistant",
           content |-> <<"[Context Summary]\n\n">> \o summary] >>
    \o SelectSeq(LastTwo(messages), LAMBDA msg : msg.role # "system")

apply_compaction(messages, summary) ==
    LET system_messages == SystemMessages(messages)
        recent_messages == IF Len(messages) > 2
                           THEN SubSeq(messages, Len(messages) - 1, Len(messages))
                           ELSE messages
        notification ==
            IF compaction_config.notify_user
            THEN <<"\n\n---\n*Note: Context compacted to save memory. ",
                   ToString(Len(messages)),
                   " messages summarized into this summary.*">>
            ELSE <<>>
        summary_content == <<"[Context Summary]\n\n">> \o summary \o notification
    IN  system_messages
        \o << [role |-> "assistant", content |-> summary_content] >>
        \o recent_messages

----------------------------------------------------------------------------
(* The inputs the handlers are called with.                                *)

SystemMsg == Msg("system", "You are a helpful assistant.")
User1 == Msg("user", "Hello!")
Assistant1 == Msg("assistant", "Hi there! How can I help?")
User2 == Msg("user", "Tell me about Python.")

Request(messages, provider, model) ==
    [messages |-> messages, provider |-> provider, model |-> model]

\* a chat that opens with a system message, sent to a named provider
RequestA == Request(<<SystemMsg, User1, Assistant1, User2>>,
                    <<"openai">>, <<"gpt-4", "-", "turbo">>)
\* a chat without system message that names no provider and no model
RequestB == Request(<<User1, Assistant1, User2>>, Absent, Absent)

Requests == {RequestA, RequestB}

Usage(n) == [has_usage |-> TRUE, prompt_tokens |-> n, total_tokens |-> n + 5000]
NoUsage == [has_usage |-> FALSE, prompt_tokens |-> 0, total_tokens |-> 0]

\* no usage block at all, and 0.8 of gpt-4-turbo's 128000 tokens
Responses == {NoUsage, Usage(102400)}

\* the JSON body of POST /config: has holds the keys that are present
NoData ==
    [has |-> {}, enabled |-> TRUE, threshold |-> 0, provider |-> None,
     model |-> None, notify_user |-> TRUE, use_simple_prompt |-> FALSE,
     summary_prompt |-> EmptyStr, simple_prompt |-> EmptyStr]

ConfigData ==
    {[NoData EXCEPT !.has = {"enabled"}, !.enabled = FALSE],
     [NoData EXCEPT !.has = {"enabled"}, !.enabled = TRUE],
     [NoData EXCEPT !.has = {"threshold"}, !.threshold = 100]}

----------------------------------------------------------------------------
(* The filter pipeline.  A slot holds one request on its way through the   *)
(* server: in on_request (pc "await" while the coroutine is suspended in   *)
(* the summarization), between on_request and on_response (pc "returned"), *)
(* or aborted by an exception that left on_request (pc "raised").          *)
(* request_data is the request dict, which on_request may rewrite; the     *)
(* other fields are on_request's locals and what it handed to the          *)
(* Summarizer, all gone once on_request has returned.  Slots are handed    *)
(* out lowest first.                                                       *)

Slots == 1..MaxTasks

NoId == [kind |-> "unset"]

NoSummaryRequest == [messages |-> <<>>, model |-> Absent, provider |-> Absent,
                     temperature |-> "0.3"]

IdleTask ==
    [pc |-> "idle",
     request_data |-> Request(<<>>, Absent, Absent),
     messages |-> <<>>,
     conversation_id |-> NoId,
     invoked |-> FALSE,
     summary_request |-> NoSummaryRequest]

\* the calls suspended in the summarization of conversation id
\* the compactions done so far, over all conversations
RECURSIVE SumCounts(_, _)
SumCounts(contexts, ids) ==
    IF ids = {} THEN 0
    ELSE LET id == CHOOSE x \in ids : TRUE
         IN  contexts[id].compaction_count + SumCounts(contexts, ids \ {id})

Compactions == SumCounts(chat_contexts, DOMAIN chat_contexts)

InFlight(id) ==
    {t \in Slots : tasks[t].pc = "await" /\ tasks[t].conversation_id = id}

NeedsCompaction(contexts, id) ==
    id \in DOMAIN contexts /\ contexts[id].needs_compaction

NoChat == [has_messages |-> FALSE, messages |-> <<>>]

IdleRewrite == [pc |-> "idle", messages |-> <<>>, summary |-> EmptyStr, result |-> <<>>]
IdleCommand == [pc |-> "idle", chat |-> NoChat, before |-> NoChat]
IdleResolve ==
    [pc |-> "idle", ctx |-> BareContext, provider_name |-> EmptyStr,
     model |-> EmptyStr, result |-> 0]

Init ==
    /\ compaction_config = CompactionConfig
    /\ chat_contexts = <<>>
    /\ tasks = [t \in Slots |-> IdleTask]
    /\ rw = IdleRewrite
    /\ cmd = IdleCommand
    /\ lim = IdleResolve

\* src/__init__.py:99-114: on_request up to its await (or to its return,
\* when there is nothing to compact).  compact_conversation renders the
\* transcript (line 269) before its try block, so an exception there
\* leaves on_request
OnRequestStart(t, request_data) ==
    /\ tasks[t].pc # "await"
    /\ \A u \in Slots : u < t => tasks[u].pc = "await"
    /\ LET conversation_id == get_conversation_id(request_data)
           messages == Get(request_data.messages, <<>>)
           call == [IdleTask EXCEPT !.request_data = request_data]
       IN  IF ~compaction_config.enabled
           THEN tasks' = [tasks EXCEPT ![t] = [call EXCEPT !.pc = "returned"]]
           ELSE IF /\ NeedsCompaction(chat_contexts, conversation_id)
                   /\ FormatRaises(AllButLast(messages))
           THEN tasks' = [tasks EXCEPT ![t] = [IdleTask EXCEPT !.pc = "raised"]]
           ELSE IF NeedsCompaction(chat_contexts, conversation_id)
           THEN /\ Compactions + Cardinality({u \in Slots : tasks[u].pc = "await"})
                     < MaxCompactions
                /\ tasks' = [tasks EXCEPT ![t] =
                     [call EXCEPT
                        !.pc = "await",
                        !.messages = messages,
                        !.conversation_id = conversation_id,
                        !.invoked = TRUE,
                        !.summary_request =
                            SummaryRequest(compaction_config,
                                           AllButLast(messages),
                                           Get(request_data.provider, None),
                                           Get(request_data.model, None))]]
           ELSE tasks' = [tasks EXCEPT ![t] = [call EXCEPT !.pc = "returned"]]
    /\ UNCHANGED <<compaction_config, chat_contexts, rw, cmd, lim>>

\* src/__init__.py:112-128 with 284-296: on_request from the moment the
\* awaited chat completion ends
OnRequestResume(t, outcome) ==
    /\ tasks[t].pc = "await"
    /\ LET res == SummaryResult(outcome)
           id == tasks[t].conversation_id
       IN  IF res.raised
           THEN /\ tasks' = [tasks EXCEPT ![t] = [IdleTask EXCEPT !.pc = "raised"]]
                /\ UNCHANGED chat_contexts
           ELSE IF Truthy(res.summary)
           THEN /\ tasks' = [tasks EXCEPT ![t] =
                     [IdleTask EXCEPT
                        !.pc = "returned",
                        !.request_data =
                            [tasks[t].request_data EXCEPT !.messages =
                                apply_compaction(tasks[t].messages, res.summary)]]]
                /\ chat_contexts' = Compacted(chat_contexts, id)
           ELSE /\ tasks' = [tasks EXCEPT ![t] =
                     [IdleTask EXCEPT
                        !.pc = "returned",
                        !.request_data = tasks[t].request_data]]
                /\ UNCHANGED chat_contexts
    /\ UNCHANGED <<compaction_config, rw, cmd, lim>>

\* src/__init__.py:131-175, called with the request that on_request
\* returned in slot t; the request then leaves the pipeline
OnResponse(t, response_data, ctx) ==
    /\ tasks[t].pc = "returned"
    /\ LET request_data == tasks[t].request_data
           prompt_tokens == PromptTokensOf(response_data)
           model == Get(request_data.model, EmptyStr)
           provider_name == Get(request_data.provider, EmptyStr)
           context_limit == get_model_context_limit(ctx, provider_name, model)
           conversation_id == get_conversation_id(request_data)
           message_count == Len(Get(request_data.messages, <<>>))
       IN  chat_contexts' =
              IF ~compaction_config.enabled \/ context_limit = 0
              THEN chat_contexts
              ELSE Observe(chat_contexts, compaction_config.threshold,
                           conversation_id,
                           Ratio(prompt_tokens, context_limit), message_count)
    /\ tasks' = [tasks EXCEPT ![t] = IdleTask]
    /\ UNCHANGED <<compaction_config, rw, cmd, lim>>

\* src/__init__.py:349-379.  Writing the file (save_config) changes no
\* state of the process
UpdateConfig(data) ==
    /\ compaction_config' =
         [enabled |-> IF "enabled" \in data.has THEN data.enabled
                      ELSE compaction_config.enabled,
          threshold |-> IF "threshold" \in data.has THEN data.threshold
                        ELSE compaction_config.threshold,
          provider |-> IF "provider" \in data.has THEN data.provider
                       ELSE compaction_config.provider,
          model |-> IF "model" \in data.has THEN data.model
                    ELSE compaction_config.model,
          notify_user |-> IF "notify_user" \in data.has THEN data.notify_user
                          ELSE compaction_config.notify_user,
          use_simple_prompt |-> IF "use_simple_prompt" \in data.has
                                THEN data.use_simple_prompt
                                ELSE compaction_config.use_simple_prompt,
          summary_prompt |-> IF "summary_prompt" \in data.has
                             THEN data.summary_prompt
                             ELSE compaction_config.summary_prompt,
          simple_prompt |-> IF "simple_prompt" \in data.has
                            THEN data.simple_prompt
                            ELSE compaction_config.simple_prompt]
    /\ UNCHANGED <<chat_contexts, tasks, rw, cmd, lim>>

\* src/__init__.py:382-397: the manual trigger is a stub that reads its
\* body and answers; src/__init__.py:400-413 and 335-346: the status and
\* configuration views only read
TriggerCompaction(request_data) ==
    /\ Len(Get(request_data.messages, <<>>)) >= 0
    /\ UNCHANGED vars

GetStatus == UNCHANGED vars

GetConfig == UNCHANGED vars

Next ==
    \/ \E t \in Slots, request_data \in Requests : OnRequestStart(t, request_data)
    \/ \E t \in Slots, outcome \in ChatOutcomes : OnRequestResume(t, outcome)
    \/ \E t \in Slots, response_data \in Responses, ctx \in Contexts :
            OnResponse(t, response_data, ctx)
    \/ \E data \in ConfigData : UpdateConfig(data)
    \/ \E request_data \in Requests : TriggerCompaction(request_data)
    \/ GetStatus
    \/ GetConfig

Spec == Init /\ [][Next]_vars

----------------------------------------------------------------------------
(* The configuration as __install__ finds it: load_config builds it from   *)
(* whatever the file holds (src/__init__.py:43-56 and 81).  Here the file  *)
(* may set a summarizer provider and/or model.                             *)

LoadedConfigs ==
    {[CompactionConfig EXCEPT !.provider = p, !.model = m] :
        p \in {None, <<"ollama">>}, m \in {None, <<"llama", "3">>}}

\* a chat that names a model but no provider
RequestC == Request(<<SystemMsg, User2>>, Absent, <<"gpt-3.5", "-", "turbo">>)

InitLoaded ==
    /\ compaction_config \in LoadedConfigs
    /\ chat_contexts = <<>>
    /\ tasks = [t \in Slots |-> IdleTask]
    /\ rw = IdleRewrite
    /\ cmd = IdleCommand
    /\ lim = IdleResolve

NextLoaded ==
    \/ \E t \in Slots, request_data \in Requests \cup {RequestC} :
            OnRequestStart(t, request_data)
    \/ \E t \in Slots, outcome \in ChatOutcomes : OnRequestResume(t, outcome)
    \/ \E t \in Slots, response_data \in Responses, ctx \in Contexts :
            OnResponse(t, response_data, ctx)

SpecLoaded == InitLoaded /\ [][NextLoaded]_vars

----------------------------------------------------------------------------
(* apply_compaction on its own: every message list up to MaxLen over four  *)
(* distinguishable messages, with and without the notice.                  *)

System2 == Msg("system", "Answer in French.")

MessageLists ==
    UNION {[1..n -> {SystemMsg, System2, User1, Assistant1}] : n \in 0..MaxLen}

InitRewrite ==
    /\ compaction_config \in
          {[CompactionConfig EXCEPT !.notify_user = b] : b \in BOOLEAN}
    /\ chat_contexts = <<>>
    /\ tasks = [t \in Slots |-> IdleTask]
    /\ rw \in {[pc |-> "call", messages |-> m, summary |-> SummaryText,
                result |-> <<>>] : m \in MessageLists}
    /\ cmd = IdleCommand
    /\ lim = IdleResolve

ApplyCompaction ==
    /\ rw.pc = "call"
    /\ rw' = [rw EXCEPT !.pc = "done",
                        !.result = apply_compaction(rw.messages, rw.summary)]
    /\ UNCHANGED <<compaction_config, chat_contexts, tasks, cmd, lim>>

NextRewrite == ApplyCompaction

SpecRewrite == InitRewrite /\ [][NextRewrite]_vars

----------------------------------------------------------------------------
(* The command path, src/simple_plugin_example.py.  Text is one piece per  *)
(* character here.  A message's content is                                 *)
(*   [kind |-> "str", text]      a string                                  *)
(*   [kind |-> "list", items]    a list of content blocks                  *)
(*   [kind |-> "missing"]        no 'content' key                          *)
(* and a block is a dict ([kind |-> "dict", has_text, text]) or a bare     *)
(* string ([kind |-> "str", text]).                                        *)

IsSpace(c) == c \in {" ", "\t", "\n", "\r"}

\* str.strip()
Strip(s) ==
    LET keep == {i \in 1..Len(s) : ~IsSpace(s[i])}
    IN  IF keep = {} THEN <<>>
        ELSE SubSeq(s, CHOOSE i \in keep : \A j \in keep : i <= j,
                       CHOOSE i \in keep : \A j \in keep : i >= j)

\* str.startswith(prefix)
StartsWith(s, prefix) ==
    Len(s) >= Len(prefix) /\ SubSeq(s, 1, Len(prefix)) = prefix

CompactCommand == <<"/", "c", "o", "m", "p", "a", "c", "t">>

\* "testing context_compaction", src/simple_plugin_example.py:55,59,63
TestingText ==
    <<"t", "e", "s", "t", "i", "n", "g", " ", "c", "o", "n", "t", "e", "x", "t",
      "_", "c", "o", "m", "p", "a", "c", "t", "i", "o", "n">>

StrContent(text) == [kind |-> "str", text |-> text, items |-> <<>>]
ListContent(items) == [kind |-> "list", text |-> <<>>, items |-> items]
MissingContent == [kind |-> "missing", text |-> <<>>, items |-> <<>>]

DictBlock(text) == [kind |-> "dict", has_text |-> TRUE, text |-> text]
ImageBlock == [kind |-> "dict", has_text |-> FALSE, text |-> <<>>]
StrBlock(text) == [kind |-> "str", has_text |-> FALSE, text |-> text]

\* src/simple_plugin_example.py:34-44: the text the filter tests
TextContent(content) ==
    IF content.kind = "list" /\ Len(content.items) > 0
    THEN IF content.items[1].kind = "dict"
         THEN IF content.items[1].has_text THEN content.items[1].text ELSE <<>>
         ELSE content.items[1].text
    ELSE IF content.kind = "str" THEN content.text
    ELSE IF content.kind = "list" THEN <<"[", "]">>
    ELSE <<>>

\* IsCompactCommand without the strip()
IsCompactCommandUntrimmed(text_content) ==
    Truthy(text_content) /\ StartsWith(text_content, CompactCommand)

\* src/simple_plugin_example.py:49
IsCompactCommand(text_content) ==
    Truthy(text_content) /\ StartsWith(Strip(text_content), CompactCommand)

\* Rewritten that replaces the whole content by the text, whatever blocks
\* it held
RewrittenWholesale(content) == StrContent(TestingText)

\* src/simple_plugin_example.py:53-64: the content after the rewrite
Rewritten(content) ==
    IF content.kind = "list" /\ Len(content.items) > 0
       /\ content.items[1].kind = "dict"
    THEN [content EXCEPT !.items[1].text = TestingText,
                         !.items[1].has_text = TRUE]
    ELSE IF content.kind = "list"
    THEN [content EXCEPT !.items[1] = StrBlock(TestingText)]
    ELSE StrContent(TestingText)

\* src/simple_plugin_example.py:14-66: the chat as the filter leaves it
compact_command_filter(chat) ==
    IF chat.has_messages /\ Len(chat.messages) > 0
    THEN LET n == Len(chat.messages)
             last_message == chat.messages[n]
         IN  IF last_message.role = "user"
                /\ IsCompactCommand(TextContent(last_message.content))
             THEN [chat EXCEPT !.messages[n].content =
                                    Rewritten(last_message.content)]
             ELSE chat
    ELSE chat

\* the texts a last message may carry
CommandTexts ==
    {CompactCommand,
     <<" ", "\t">> \o CompactCommand \o <<" ", "n", "o", "w", "\n">>,
     CompactCommand \o <<"i", "o", "n">>,
     <<"/", "C", "o", "m", "p", "a", "c", "t">>,
     <<"/", "c", "o", "m", "p", "a", "c">>,
     <<"h", "i", " ">> \o CompactCommand,
     <<"c", "o", "m", "p", "a", "c", "t">>,
     <<" ", " ">>,
     <<>>}

CommandContents ==
    {StrContent(x) : x \in CommandTexts}
    \cup {ListContent(<<DictBlock(x)>>) : x \in CommandTexts}
    \cup {ListContent(<<DictBlock(x), ImageBlock>>) : x \in CommandTexts}
    \cup {ListContent(<<StrBlock(x)>>) : x \in CommandTexts}
    \cup {ListContent(<<ImageBlock, DictBlock(CompactCommand)>>),
          ListContent(<<>>), MissingContent}

\* the messages before the last one: users that themselves typed /compact
\* alternate with assistant answers
Earlier(k) ==
    [i \in 1..k |->
        IF i % 2 = 1
        THEN [role |-> "user", content |-> StrContent(CompactCommand)]
        ELSE [role |-> "assistant",
              content |-> ListContent(<<DictBlock(CompactCommand)>>)]]

Chats ==
    {NoChat, [has_messages |-> TRUE, messages |-> <<>>]}
    \cup {[has_messages |-> TRUE,
           messages |-> Append(Earlier(k), [role |-> r, content |-> c])] :
            k \in 0..MaxEarlier, r \in {"user", "assistant", "system"},
            c \in CommandContents}

InitCommand ==
    /\ compaction_config = CompactionConfig
    /\ chat_contexts = <<>>
    /\ tasks = [t \in Slots |-> IdleTask]
    /\ rw = IdleRewrite
    /\ cmd \in {[pc |-> "call", chat |-> c, before |-> c] : c \in Chats}
    /\ lim = IdleResolve

\* one call of the registered chat request filter; before keeps the chat
\* as it was handed in
CompactCommandFilter ==
    /\ cmd.pc = "call"
    /\ cmd' = [cmd EXCEPT !.pc = "done",
                          !.chat = compact_command_filter(cmd.chat)]
    /\ UNCHANGED <<compaction_config, chat_contexts, tasks, rw, lim>>

NextCommand == CompactCommandFilter

SpecCommand == InitCommand /\ [][NextCommand]_vars

----------------------------------------------------------------------------
(* get_model_context_limit on its own: one call with a registry, a         *)
(* provider name and a model name, src/__init__.py:188-258.                *)

\* providers in a registry
MaxProviders == 2

\* the model names the resolver is asked about
ResolverModels ==
    << <<"gpt-4", "-", "turbo", "-", "preview">>,
       <<"GPT-4", "-", "Turbo">>,
       <<"gpt-4", "-", "1106", "-", "preview">>,
       <<"gpt-4", "-", "32k">>,
       <<"gpt-4">>,
       <<"gpt-3.5", "-", "turbo", "-", "16k">>,
       <<"gpt-3.5", "-", "turbo">>,
       <<"claude", "-", "3", "-", "haiku">>,
       <<"claude", "-", "2">>,
       <<"claude", "-", "instant">>,
       <<"llama", "-", "32k", "-", "16k">>,
       <<"mistral", "-", "16k">>,
       <<"mixtral">>,
       <<"phi", "-", "32k">>,
       EmptyStr >>

\* a provider whose metadata has every model, limit.context being n
Knows(n) ==
    [has_model_info |-> TRUE, raises |-> FALSE,
     table |-> [i \in 1..Len(ResolverModels) |-> Entry(ResolverModels[i], n)]]

\* the providers a registry may hold: without model_info, with a
\* model_info that raises, without the model, with the model but no
\* limit.context, and with limit.context 0, negative or positive
ProviderKinds ==
    {[has_model_info |-> FALSE, raises |-> FALSE, table |-> <<>>],
     [has_model_info |-> TRUE, raises |-> TRUE, table |-> <<>>],
     [has_model_info |-> TRUE, raises |-> FALSE, table |-> <<>>],
     [Knows(0) EXCEPT !.table =
         [i \in 1..Len(ResolverModels) |->
             [id |-> ResolverModels[i], has_context |-> FALSE, context |-> 0]]],
     Knows(0), Knows(-1), Knows(64000), Knows(9000)}

ProviderName(i) == <<"p", ToString(i)>>

Registries ==
    UNION {[1..n -> ProviderKinds] : n \in 0..MaxProviders}

\* the extension contexts: a registry, reachable through get_provider,
\* get_providers, or both
ResolverContexts ==
    {[has_get_provider |-> g[1],
      has_get_providers |-> g[2],
      order |-> [i \in 1..Len(r) |-> ProviderName(i)],
      providers |-> [n \in {ProviderName(i) : i \in 1..Len(r)} |->
                        r[CHOOSE i \in 1..Len(r) : ProviderName(i) = n]]] :
        r \in Registries,
        g \in {<<TRUE, TRUE>>, <<TRUE, FALSE>>, <<FALSE, TRUE>>}}

\* no name, the first provider, the last provider, an unknown provider
ProviderNames ==
    {EmptyStr, ProviderName(1), ProviderName(MaxProviders), <<"nobody">>}

InitResolver ==
    /\ compaction_config = CompactionConfig
    /\ chat_contexts = <<>>
    /\ tasks = [t \in Slots |-> IdleTask]
    /\ rw = IdleRewrite
    /\ cmd = IdleCommand
    /\ lim \in {[pc |-> "call", ctx |-> c, provider_name |-> n,
                 model |-> ResolverModels[m], result |-> 0] :
                  c \in ResolverContexts, n \in ProviderNames,
                  m \in 1..Len(ResolverModels)}

GetModelContextLimit ==
    /\ lim.pc = "call"
    /\ lim' = [lim EXCEPT
                 !.pc = "done",
                 !.result = get_model_context_limit(lim.ctx, lim.provider_name,
                                                    lim.model)]
    /\ UNCHANGED <<compaction_config, chat_contexts, tasks, rw, cmd>>

NextResolver == GetModelContextLimit

SpecResolver == InitResolver /\ [][NextResolver]_vars

----------------------------------------------------------------------------
(* The Summarizer with message slices of any shape: messages without a     *)
(* role, with a role that is not a string, without content; and with a     *)
(* chat completion whose body is malformed.                                *)

NoRole == [role |-> "<absent>", content |-> <<"Hello!">>]
NullRole == [role |-> "<None>", content |-> <<"Hello!">>]
NoContent == [role |-> "assistant", content |-> EmptyStr]

SummarizeRequests ==
    {Request(<<SystemMsg, m, User2>>, <<"openai">>, <<"gpt-4", "-", "turbo">>) :
        m \in {User1, NoRole, NullRole, NoContent}}

\* the outcomes of the await, a response that is not of the expected
\* shape (AttributeError, an Exception) among them
SummarizeOutcomes ==
    ChatOutcomes \cup {[kind |-> "malformed", text |-> EmptyStr]}

InitSummarize == Init

NextSummarize ==
    \/ \E t \in Slots, request_data \in SummarizeRequests :
            OnRequestStart(t, request_data)
    \/ \E t \in Slots, outcome \in SummarizeOutcomes : OnRequestResume(t, outcome)
    \/ \E t \in Slots, response_data \in Responses :
            OnResponse(t, response_data, MockContext)

SpecSummarize == InitSummarize /\ [][NextSummarize]_vars

----------------------------------------------------------------------------
(* POST /config with a numeric threshold, between requests and responses.  *)
(* update_config stores float(data['threshold']) as it comes               *)
(* (src/__init__.py:357-358); thresholds are in hundredths, so 150 is 1.5  *)
(* and -50 is -0.5.                                                        *)

ThresholdData ==
    {[NoData EXCEPT !.has = {"threshold"}, !.threshold = x] :
        x \in {-50, 0, 50, 100, 150}}

InitThreshold == Init

NextThreshold ==
    \/ \E data \in ThresholdData : UpdateConfig(data)
    \/ \E t \in Slots : OnRequestStart(t, RequestB)
    \/ \E t \in Slots, outcome \in ChatOutcomes : OnRequestResume(t, outcome)
    \/ \E t \in Slots, response_data \in Responses :
            OnResponse(t, response_data, MockContext)

SpecThreshold == InitThreshold /\ [][NextThreshold]_vars

----------------------------------------------------------------------------
(* A chat at its first turn: the request of a system message and one user  *)
(* message, sent again after its response (a retry), next to the longer    *)
(* request of the same conversation.  on_request compacts whatever list an *)
(* armed conversation sends, however short (src/__init__.py:104-116).      *)

RequestShort == Request(<<SystemMsg, User1>>,
                        <<"openai">>, <<"gpt-4", "-", "turbo">>)

RetryRequests == {RequestShort, RequestA}

InitRetry == Init

NextRetry ==
    \/ \E t \in Slots, request_data \in RetryRequests :
            OnRequestStart(t, request_data)
    \/ \E t \in Slots, outcome \in ChatOutcomes : OnRequestResume(t, outcome)
    \/ \E t \in Slots, response_data \in Responses :
            OnResponse(t, response_data, MockContext)

SpecRetry == InitRetry /\ [][NextRetry]_vars

----------------------------------------------------------------------------
(* The two rewrites of a message list side by side: apply_compaction on a  *)
(* list, or compact_command_filter on a chat.                              *)

InitMessages == InitRewrite \/ InitCommand

NextMessages == ApplyCompaction \/ CompactCommandFilter

SpecMessages == InitMessages /\ [][NextMessages]_vars

----------------------------------------------------------------------------
(* Properties.                                                             *)

\* the summary message apply_compaction builds starts with this
SummaryPrefix(summary) == <<"[Context Summary]\n\n">> \o summary

IsSummaryMessage(msg, summary) ==
    /\ msg.role = "assistant"
    /\ Len(msg.content) >= Len(SummaryPrefix(summary))
    /\ SubSeq(msg.content, 1, Len(SummaryPrefix(summary))) = SummaryPrefix(summary)

\* the summarization did not produce a summary
Failed(outcome) == outcome.kind # "text" \/ outcome.text = EmptyStr

\* C1: two on_request calls for one armed conversation that overlap in
\* the summarization invoke the Summarizer once between them, and the
\* flag goes from true to false once: a call enters the summarization
\* only when no other call for its id is in it, and a compaction is
\* installed only on a flag that is still set.
C1_OneCompactionPerArming ==
    [][\A t \in Slots :
         /\ (tasks[t].pc # "await" /\ tasks'[t].pc = "await")
               => InFlight(tasks'[t].conversation_id) = {}
         /\ (/\ tasks[t].pc = "await"
             /\ chat_contexts'[tasks[t].conversation_id].compaction_count
                  > chat_contexts[tasks[t].conversation_id].compaction_count)
               => chat_contexts[tasks[t].conversation_id].needs_compaction
      ]_vars

\* C2: in every state every conversation id has at most one on_request
\* call between its test of needs_compaction and the end of its
\* summarization.
C2_AtMostOneInFlight ==
    \A t, u \in Slots :
        (/\ tasks[t].pc = "await" /\ tasks[u].pc = "await"
         /\ tasks[t].conversation_id = tasks[u].conversation_id) => t = u

\* what C3 says of one on_response step; armed_stays tells whether a flag
\* that was set before the step may stay set below the threshold
C3_Step(armed_stays) ==
    \A t \in {u \in Slots : tasks[u].pc = "returned" /\ tasks'[u].pc = "idle"} :
        LET request_data == tasks[t].request_data
            id == get_conversation_id(request_data)
            was_armed == NeedsCompaction(chat_contexts, id)
        IN  compaction_config.enabled =>
            \A ctx \in Contexts :
              LET context_limit ==
                      get_model_context_limit(ctx,
                          Get(request_data.provider, EmptyStr),
                          Get(request_data.model, EmptyStr))
              IN  context_limit > 0 =>
                  \A response_data \in Responses :
                    LET prompt_tokens == IF response_data.has_usage
                                         THEN response_data.prompt_tokens ELSE 0
                    IN  OnResponse(t, response_data, ctx)
                        => /\ id \in DOMAIN chat_contexts'
                           /\ chat_contexts'[id].usage_ratio.num = prompt_tokens
                           /\ chat_contexts'[id].usage_ratio.den = context_limit
                           /\ chat_contexts'[id].message_count
                                = Len(request_data.messages)
                           /\ chat_contexts'[id].needs_compaction
                                <=> \/ prompt_tokens * 100
                                         >= compaction_config.threshold
                                              * context_limit
                                    \/ (armed_stays /\ was_armed)

\* C3 as claimed: after an on_response with a positive context limit the
\* entry holds prompt_tokens / context_limit and the message count, and
\* needs_compaction is true iff the ratio is at or above the threshold,
\* whatever the entry was before.
C3_FlagIffAtOrAbove == [][C3_Step(FALSE)]_vars

\* C3 as amended: ... and needs_compaction is true iff the ratio is at or
\* above the threshold or the flag was already set before the call.
C3_FlagIffAtOrAboveOrArmed == [][C3_Step(TRUE)]_vars

\* an armed conversation whose latest response reported no usage
C3_Witness ==
    \E id \in DOMAIN chat_contexts :
        /\ chat_contexts[id].needs_compaction
        /\ chat_contexts[id].usage_ratio.num = 0

\* C5: when the summarization fails (raises, times out, is cancelled or
\* yields empty text), on_request returns the request with its message
\* list as it was, needs_compaction stays true and compaction_count stays
\* as it was.
C5_FailureKeepsRequestAndFlag ==
    [][\A t \in Slots, outcome \in ChatOutcomes :
         (OnRequestResume(t, outcome) /\ Failed(outcome))
         => /\ tasks'[t].pc = "returned"
            /\ tasks'[t].request_data = tasks[t].request_data
            /\ tasks'[t].request_data.messages = tasks[t].messages
            /\ chat_contexts'[tasks[t].conversation_id].needs_compaction
            /\ chat_contexts'[tasks[t].conversation_id].compaction_count
                 = chat_contexts[tasks[t].conversation_id].compaction_count
      ]_vars

\* the positions of the system messages of a list, and the i-th of them
SystemPositions(messages) ==
    {i \in 1..Len(messages) : messages[i].role = "system"}

NthSystem(messages, i) ==
    CHOOSE p \in SystemPositions(messages) :
        Cardinality({q \in SystemPositions(messages) : q <= p}) = i

\* C6: apply_compaction returns the system messages in their order, then
\* one assistant message that starts with "[Context Summary]\n\n" and the
\* summary, then the last min(2, n) messages of the original list:
\* #system + 1 + min(2, n) messages, the summary at index #system.
C6_RewriteShape ==
    rw.pc = "done" =>
        LET messages == rw.messages
            result == rw.result
            n == Len(messages)
            k == Cardinality(SystemPositions(messages))
            tail == Min(2, n)
        IN  /\ Len(result) = k + 1 + tail
            /\ \A i \in 1..k : result[i] = messages[NthSystem(messages, i)]
            /\ IsSummaryMessage(result[k + 1], rw.summary)
            /\ \A j \in 1..tail : result[k + 1 + j] = messages[n - tail + j]

\* five messages with one system message in front have become four, the
\* summary second
C6_Witness ==
    /\ rw.pc = "done"
    /\ Len(rw.messages) = 5
    /\ SystemPositions(rw.messages) = {1}
    /\ Len(rw.result) = 4
    /\ IsSummaryMessage(rw.result[2], rw.summary)

\* C7: needs_compaction of an id goes from false (or no entry) to true
\* only in an on_response step for that id whose usage is at or above the
\* threshold, and from true to false only in the on_request step of a
\* call for that id that got a summary and put the rewritten list into
\* its request; every other step leaves the flag as it is.
C7_FlagWriters ==
    [][\A id \in DOMAIN chat_contexts' :
         LET before == NeedsCompaction(chat_contexts, id)
             after == chat_contexts'[id].needs_compaction
         IN  /\ (~before /\ after) =>
                  \E t \in Slots, response_data \in Responses, ctx \in Contexts :
                     /\ OnResponse(t, response_data, ctx)
                     /\ get_conversation_id(tasks[t].request_data) = id
                     /\ chat_contexts'[id].usage_ratio.num * 100
                          >= compaction_config.threshold
                               * chat_contexts'[id].usage_ratio.den
             /\ (before /\ ~after) =>
                  \E t \in Slots, outcome \in ChatOutcomes :
                     /\ OnRequestResume(t, outcome)
                     /\ tasks[t].conversation_id = id
                     /\ ~Failed(outcome)
                     /\ tasks'[t].pc = "returned"
                     /\ \E i \in 1..Len(tasks'[t].request_data.messages) :
                           IsSummaryMessage(tasks'[t].request_data.messages[i],
                                            outcome.text)
      ]_vars

\* a conversation that was armed and compacted, its rewritten request
\* on the way
C7_Witness ==
    \E t \in Slots :
        /\ tasks[t].pc = "returned"
        /\ \E i \in 1..Len(tasks[t].request_data.messages) :
              IsSummaryMessage(tasks[t].request_data.messages[i], SummaryText)
        /\ LET id == get_conversation_id(tasks[t].request_data)
           IN  /\ id \in DOMAIN chat_contexts
               /\ ~chat_contexts[id].needs_compaction
               /\ chat_contexts[id].compaction_count > 0

\* C8: the summarization request carries the configured provider and
\* model where the configuration sets them, the request's own where it
\* does not, and leaves out a field that neither sets.
C8_ConfigOverridesTarget ==
    \A t \in Slots :
        tasks[t].pc = "await" =>
            LET target(configured, own) ==
                    IF configured # None THEN configured ELSE own
            IN  /\ tasks[t].summary_request.provider
                     = target(compaction_config.provider,
                              tasks[t].request_data.provider)
                /\ tasks[t].summary_request.model
                     = target(compaction_config.model,
                              tasks[t].request_data.model)

\* the text the command strategy looks at: the string content, or the
\* text of the first block of a block list
PrimaryText(content) ==
    CASE content.kind = "str" -> content.text
      [] content.kind = "list" /\ content.items # <<>> -> content.items[1].text
      [] OTHER -> <<>>

\* the last message is a user message whose trimmed primary text starts
\* with /compact
IsCommandChat(chat) ==
    /\ chat.has_messages
    /\ chat.messages # <<>>
    /\ chat.messages[Len(chat.messages)].role = "user"
    /\ StartsWith(Strip(PrimaryText(chat.messages[Len(chat.messages)].content)),
                  CompactCommand)

\* C9: after the filter has handled a /compact command that follows at
\* least one earlier message, the chat has exactly two messages, a system
\* message and then the rewritten user message.
C9_CommandLeavesSummaryAndTrigger ==
    (cmd.pc = "done" /\ IsCommandChat(cmd.before) /\ Len(cmd.before.messages) > 1)
    => /\ Len(cmd.chat.messages) = 2
       /\ cmd.chat.messages[1].role = "system"
       /\ cmd.chat.messages[2].role = "user"

\* C10: the filter changes the chat iff the message list is non-empty,
\* its last message has role user and that message's trimmed primary text
\* starts with /compact; otherwise the chat is left as it was.
C10_FiresIffCompactCommand ==
    cmd.pc = "done" => (cmd.chat # cmd.before <=> IsCommandChat(cmd.before))

\* a command given as the text of a first block, with white space before
\* it, after earlier messages, has been intercepted
C10_Witness ==
    /\ cmd.pc = "done"
    /\ cmd.chat # cmd.before
    /\ Len(cmd.before.messages) > 1
    /\ LET content == cmd.before.messages[Len(cmd.before.messages)].content
       IN  /\ content.kind = "list"
           /\ content.items[1].kind = "dict"
           /\ content.items[1].text[1] = " "

\* provider i of the registry of the call answers the call's model with a
\* limit.context the resolver takes
Reports(i) ==
    LET provider == lim.ctx.providers[lim.ctx.order[i]]
    IN  /\ provider.has_model_info
        /\ ~provider.raises
        /\ \E k \in 1..Len(provider.table) :
              /\ Lower(provider.table[k].id) = Lower(lim.model)
              /\ provider.table[k].has_context
              /\ provider.table[k].context # 0

Reported(i) ==
    LET provider == lim.ctx.providers[lim.ctx.order[i]]
        k == CHOOSE j \in 1..Len(provider.table) :
                Lower(provider.table[j].id) = Lower(lim.model)
    IN  provider.table[k].context

Raises(i) ==
    LET provider == lim.ctx.providers[lim.ctx.order[i]]
    IN  provider.has_model_info /\ provider.raises

\* C11: an exception while querying the named provider counts as no data
\* from that source and resolution goes on to the scan: when the named
\* provider raises and the scan of the registry comes to a provider that
\* reports limit.context for the model (before it comes to one that
\* raises), the resolver returns that provider's (positive) value.
C11_RaisingProviderFallsThroughToScan ==
    (/\ lim.pc = "done"
     /\ lim.ctx.has_get_provider
     /\ lim.ctx.has_get_providers
     /\ \E n \in 1..Len(lim.ctx.order) :
           lim.ctx.order[n] = lim.provider_name /\ Raises(n))
    => \A i \in 1..Len(lim.ctx.order) :
          (/\ Reports(i)
           /\ Reported(i) > 0
           /\ \A j \in 1..(i - 1) : ~Reports(j) /\ ~Raises(j))
          => lim.result = Reported(i)

\* C13: the context limit the resolver returns is strictly positive,
\* whatever the registry holds and whatever provider and model are named.
C13_LimitIsPositive ==
    lim.pc = "done" => lim.result > 0

\* the limits the heuristic table is to give for the model names asked
TableLimit(model) ==
    CASE model = <<"gpt-4", "-", "turbo", "-", "preview">> -> 128000
      [] model = <<"GPT-4", "-", "Turbo">> -> 128000
      [] model = <<"gpt-4", "-", "1106", "-", "preview">> -> 128000
      [] model = <<"gpt-4", "-", "32k">> -> 32768
      [] model = <<"gpt-4">> -> 8192
      [] model = <<"gpt-3.5", "-", "turbo", "-", "16k">> -> 16384
      [] model = <<"gpt-3.5", "-", "turbo">> -> 4096
      [] model = <<"claude", "-", "3", "-", "haiku">> -> 200000
      [] model = <<"claude", "-", "2">> -> 100000
      [] model = <<"claude", "-", "instant">> -> 100000
      [] model = <<"llama", "-", "32k", "-", "16k">> -> 32768
      [] model = <<"mistral", "-", "16k">> -> 16384
      [] model = <<"mixtral">> -> 8192
      [] OTHER -> 8192

\* C14: when no provider reports a limit, the resolver returns the row of
\* the heuristic table that matches first in the listed order, on the
\* lower-cased name: 128000 for gpt-4-turbo-preview and GPT-4-Turbo,
\* 32768 for gpt-4-32k, 16384 for gpt-3.5-turbo-16k, 200000 for
\* claude-3-haiku, 32768 / 16384 / 8192 for the llama family with 32k,
\* with 16k, with neither, and 8192 for any other name.
C14_TableFirstMatchWins ==
    (lim.pc = "done" /\ \A i \in 1..Len(lim.ctx.order) : ~Reports(i))
    => lim.result = TableLimit(lim.model)

\* gpt-4-turbo-preview, with no provider to ask, resolved to 128000
C14_Witness ==
    /\ lim.pc = "done"
    /\ lim.ctx.order = <<>>
    /\ lim.model = <<"gpt-4", "-", "turbo", "-", "preview">>
    /\ lim.result = 128000

\* C12: compact_conversation never raises to on_request: whatever the
\* shape of the message slice and whether the chat completion errors, is
\* malformed, has no choices or has empty text, the call of on_request
\* goes on and returns; no summarization step ends a call in an exception.
C12_SummarizerNeverRaises ==
    [][\A t \in Slots :
         /\ (tasks[t].pc \in {"idle", "returned"}) => tasks'[t].pc # "raised"
         /\ \A outcome \in SummarizeOutcomes :
              (outcome.kind # "cancelled" /\ OnRequestResume(t, outcome))
              => tasks'[t].pc = "returned"
      ]_vars

\* C15: once a conversation is armed, an on_request for it (compaction
\* enabled) hands one summarization to the Summarizer and waits for it;
\* when the Summarizer answers with non-empty text the call returns the
\* request with the apply_compaction rewrite of its messages, the flag is
\* false and compaction_count is one higher.  on_response changes no
\* request: the slots of the other requests stay as they are.
C15_ArmedRequestCompacts ==
    [][\A t \in Slots :
         /\ (tasks[t].pc # "await" /\ tasks'[t] # tasks[t]) =>
              \A request_data \in Requests :
                 (/\ OnRequestStart(t, request_data)
                  /\ compaction_config.enabled
                  /\ NeedsCompaction(chat_contexts,
                                     get_conversation_id(request_data)))
                 => /\ tasks'[t].pc = "await"
                    /\ tasks'[t].invoked
                    /\ tasks'[t].request_data = request_data
                    /\ chat_contexts' = chat_contexts
         /\ tasks[t].pc = "await" =>
              \A outcome \in ChatOutcomes :
                 (OnRequestResume(t, outcome) /\ ~Failed(outcome))
                 => LET id == tasks[t].conversation_id
                    IN  /\ tasks'[t].pc = "returned"
                        /\ tasks'[t].request_data.messages =
                             apply_compaction(tasks[t].request_data.messages,
                                              outcome.text)
                        /\ ~chat_contexts'[id].needs_compaction
                        /\ chat_contexts'[id].compaction_count
                             = chat_contexts[id].compaction_count + 1
         /\ (tasks[t].pc = "returned" /\ tasks'[t].pc = "idle") =>
              \A u \in Slots \ {t} : tasks'[u] = tasks[u]
      ]_vars

\* the first request of an armed conversation has come back rewritten,
\* the conversation compacted once and no longer armed
C15_Witness ==
    \E t \in Slots :
        /\ tasks[t].pc = "returned"
        /\ tasks[t].request_data.messages =
              apply_compaction(RequestA.messages, SummaryText)
        /\ LET id == get_conversation_id(RequestA)
           IN  /\ id \in DOMAIN chat_contexts
               /\ ~chat_contexts[id].needs_compaction
               /\ chat_contexts[id].compaction_count = 1

\* C16: a step of on_request or on_response that handles conversation id
\* A leaves the entry of every other id as it is: in every step, an entry
\* that is created or changed is the entry of the id of the request the
\* step handles, and no entry disappears.
C16_OtherConversationsUntouched ==
    [][/\ DOMAIN chat_contexts \subseteq DOMAIN chat_contexts'
       /\ \A id \in DOMAIN chat_contexts' :
            (id \notin DOMAIN chat_contexts \/ chat_contexts'[id] # chat_contexts[id])
            => \E t \in Slots :
                  \/ /\ tasks[t].pc = "await"
                     /\ tasks'[t].pc # "await"
                     /\ tasks[t].conversation_id = id
                  \/ /\ tasks[t].pc = "returned"
                     /\ tasks'[t].pc = "idle"
                     /\ get_conversation_id(tasks[t].request_data) = id
      ]_vars

\* one conversation has been compacted and is tracked unarmed while the
\* summarization for another, armed, conversation is suspended
C16_Witness ==
    \E t \in Slots :
        /\ tasks[t].pc = "await"
        /\ chat_contexts[tasks[t].conversation_id].needs_compaction
        /\ \E id \in DOMAIN chat_contexts :
              /\ id # tasks[t].conversation_id
              /\ chat_contexts[id].compaction_count > 0
              /\ ~chat_contexts[id].needs_compaction

\* C17: no message is changed in place but the triggering message of the
\* command path.  apply_compaction returns a new list in which every
\* message but the summary is one of the original messages, role and
\* content as they were; the command filter leaves every earlier
\* message, the number of messages and the
\* last message's role as they were, and of the last message's content
\* changes only the primary text (the string, or the first block's text,
\* the other blocks staying).
C17_OnlyTriggerRewritten ==
    /\ rw.pc = "done" =>
          LET k == Cardinality(SystemPositions(rw.messages))
          IN  \A i \in 1..Len(rw.result) :
                 i # k + 1 =>
                    \E j \in 1..Len(rw.messages) : rw.result[i] = rw.messages[j]
    /\ cmd.pc = "done" =>
          /\ cmd.chat.has_messages = cmd.before.has_messages
          /\ Len(cmd.chat.messages) = Len(cmd.before.messages)
          /\ \A i \in 1..Len(cmd.before.messages) :
                LET old == cmd.before.messages[i]
                    new == cmd.chat.messages[i]
                IN  IF i < Len(cmd.before.messages)
                    THEN new = old
                    ELSE /\ new.role = old.role
                         /\ new.content.kind \in {old.content.kind, "str"}
                         /\ old.content.kind = "list" =>
                               /\ new.content.kind = "list"
                               /\ Len(new.content.items) = Len(old.content.items)
                               /\ \A b \in 2..Len(old.content.items) :
                                     new.content.items[b] = old.content.items[b]
                               /\ old.content.items # <<>> =>
                                     new.content.items[1].kind
                                        = old.content.items[1].kind

\* a command whose content is a text block followed by another block has
\* been rewritten after earlier messages
C17_Witness ==
    /\ cmd.pc = "done"
    /\ cmd.chat # cmd.before
    /\ Len(cmd.before.messages) > 1
    /\ Len(cmd.before.messages[Len(cmd.before.messages)].content.items) = 2

\* C18: with notify_user the notice in the summary message states the
\* number of messages that on_request handed to the Summarizer for this
\* compaction; without notify_user the summary message is exactly
\* "[Context Summary]\n\n" followed by the summary.
C18_NoticeCountsSummarizedMessages ==
    [][\A t \in Slots :
         tasks[t].pc = "await" =>
            \A outcome \in ChatOutcomes :
               (OnRequestResume(t, outcome) /\ ~Failed(outcome))
               => LET summarized == AllButLast(tasks[t].messages)
                      k == Cardinality(SystemPositions(tasks[t].messages))
                      notice ==
                          IF compaction_config.notify_user
                          THEN <<"\n\n---\n*Note: Context compacted to save memory. ",
                                 ToString(Len(summarized)),
                                 " messages summarized into this summary.*">>
                          ELSE <<>>
                  IN  tasks'[t].request_data.messages[k + 1].content
                         = SummaryPrefix(outcome.text) \o notice
      ]_vars

\* how often m occurs in the list
Occurrences(list, m) == Cardinality({i \in 1..Len(list) : list[i] = m})

\* C19: apply_compaction takes the tail from the unfiltered list and does
\* not deduplicate: a system message among the last min(2, n) messages is
\* in the result once more than it is among the leading system messages
\* (twice, when the list holds it once), and a message of another role
\* among the last min(2, n) is in the result as often as in that tail
\* (once, when the tail holds it once).
C19_TailNotDeduplicated ==
    rw.pc = "done" =>
        LET tail == LastTwo(rw.messages)
        IN  \A j \in 1..Len(tail) :
               Occurrences(rw.result, tail[j]) =
                  Occurrences(tail, tail[j])
                  + (IF tail[j].role = "system"
                     THEN Occurrences(rw.messages, tail[j])
                     ELSE 0)

\* a list that ends in its only system message: the result holds that
\* message first and last
C19_Witness ==
    /\ rw.pc = "done"
    /\ Len(rw.messages) = 3
    /\ SystemPositions(rw.messages) = {3}
    /\ Len(rw.result) = 4
    /\ rw.result[1] = rw.messages[3]
    /\ rw.result[4] = rw.messages[3]

\* C20: the live configuration's threshold lies in (0, 1], whatever numeric
\* thresholds update_config was called with and whatever requests and
\* responses came in between (thresholds are in hundredths).
C20_ThresholdInUnitInterval ==
    /\ compaction_config.threshold > 0
    /\ compaction_config.threshold <= 100

\* C21: a compaction keeps the conversation id of its request: the id
\* on_response derives from the rewritten request is the id on_request
\* derived before the rewrite, the one whose flag started the compaction.
C21_CompactionKeepsConversationId ==
    [][\A t \in Slots :
         (/\ tasks[t].pc = "await"
          /\ tasks'[t].pc = "returned"
          /\ tasks'[t].request_data.messages # tasks[t].messages)
         => get_conversation_id(tasks'[t].request_data)
               = tasks[t].conversation_id
      ]_vars

\* C22: a compaction never lengthens the history: the message list that
\* on_request returns after a compaction has no more messages than the
\* list the request came with.
C22_CompactionNeverLengthens ==
    [][\A t \in Slots :
         (/\ tasks[t].pc = "await"
          /\ tasks'[t].pc = "returned"
          /\ tasks'[t].request_data.messages # tasks[t].messages)
         => Len(tasks'[t].request_data.messages) <= Len(tasks[t].messages)
      ]_vars

\* C23: while the configuration has enabled = false (before and after the
\* step), on_request and on_response are no-ops: no entry of the
\* conversation state is created or modified (so a flag set before
\* disabling stays set), the Summarizer is not invoked, and a request
\* comes back from on_request with the messages it came with.
C23_DisabledIsNoOp ==
    [][(~compaction_config.enabled /\ ~compaction_config'.enabled)
       => /\ chat_contexts' = chat_contexts
          /\ \A t \in Slots :
                /\ tasks'[t].pc = "await" => tasks[t].pc = "await"
                /\ tasks'[t].invoked => tasks[t].invoked
                /\ (tasks[t].pc = "await" /\ tasks'[t].pc = "returned")
                   => tasks'[t].request_data = tasks[t].request_data
      ]_vars

====
